---- MODULE Spec2Model ----
(***************************************************************************)
(* Model of dataswipe's column matcher: the scoring functions of           *)
(* similarity.go and of the match file (baseTypeScore, nullSimilarityScore,*)
(* uniqueScore, overlapScore, columnNameScore, match) and the matchProfile *)
(* loop with its map of scored pairs and its final sort.                   *)
(*                                                                         *)
(* Strings are sequences of one-rune strings.  A float64 is a pair         *)
(* <<n, d>>: the rational n/d in lowest terms when d > 0, and a non-finite *)
(* value when d = 0 (<<0,0>> is NaN, <<1,0>> +Inf, <<-1,0>> -Inf).         *)
(* Rounding is not modelled.                                               *)
(***************************************************************************)
EXTENDS Integers, Sequences, FiniteSets, TLC

VARIABLES pc, leftCps, rightCps, li, ri, scores, results, fn, arg, ret,
          files, side, conns, db, cps, err, faults

vars == <<pc, leftCps, rightCps, li, ri, scores, results, fn, arg, ret,
          files, side, conns, db, cps, err, faults>>

\* the state of runMatch's two profilePath calls
profVars == <<files, side, conns, db, cps, err, faults>>

Nil == "nil"

(***************************************************************************)
(* float64 arithmetic                                                      *)
(***************************************************************************)
Abs(x) == IF x < 0 THEN -x ELSE x

RECURSIVE GCD(_, _)
GCD(a, b) == IF b = 0 THEN a ELSE GCD(b, a % b)

Sign(x) == IF x > 0 THEN 1 ELSE IF x < 0 THEN -1 ELSE 0

\* the float64 with value n/d; d = 0 gives NaN or an infinity, as IEEE division does
F(n, d) ==
    IF d = 0 THEN <<Sign(n), 0>>
    ELSE LET g == GCD(Abs(n), Abs(d))
         IN  <<Sign(d) * (n \div g), Abs(d) \div g>>

NaN == <<0, 0>>
Zero == <<0, 1>>
One == <<1, 1>>

IsNaN(x) == x = NaN
IsFinite(x) == x[2] > 0

FNeg(x) == <<-x[1], x[2]>>

\* x + y; Inf + -Inf and anything with NaN is NaN
FAdd(x, y) ==
    IF IsFinite(x) /\ IsFinite(y)
    THEN LET g == GCD(x[2], y[2])
         IN  F(x[1] * (y[2] \div g) + y[1] * (x[2] \div g), x[2] * (y[2] \div g))
    ELSE IF IsNaN(x) \/ IsNaN(y) THEN NaN
    ELSE IF IsFinite(x) THEN y
    ELSE IF IsFinite(y) THEN x
    ELSE IF x = y THEN x ELSE NaN

FSub(x, y) == FAdd(x, FNeg(y))

\* x * y; 0 * Inf is NaN
FMul(x, y) ==
    IF IsFinite(x) /\ IsFinite(y)
    THEN LET g1 == GCD(Abs(x[1]), y[2])
             g2 == GCD(Abs(y[1]), x[2])
         IN  F((x[1] \div g1) * (y[1] \div g2), (x[2] \div g2) * (y[2] \div g1))
    ELSE IF IsNaN(x) \/ IsNaN(y) \/ x[1] = 0 \/ y[1] = 0 THEN NaN
    ELSE <<Sign(x[1]) * Sign(y[1]), 0>>

\* x / y; 0/0 is NaN, a nonzero value over 0 an infinity
FDiv(x, y) ==
    IF IsFinite(x) /\ IsFinite(y)
    THEN IF y[1] = 0 THEN <<Sign(x[1]), 0>>
         ELSE FMul(x, <<Sign(y[1]) * y[2], Abs(y[1])>>)
    ELSE IF IsNaN(x) \/ IsNaN(y) THEN NaN
    ELSE IF IsFinite(y) THEN <<x[1] * (IF y[1] < 0 THEN -1 ELSE 1), 0>>
    ELSE IF IsFinite(x) THEN Zero
    ELSE NaN

\* x < y; every comparison with NaN is false
FLt(x, y) ==
    IF IsNaN(x) \/ IsNaN(y) THEN FALSE
    ELSE IF IsFinite(x) /\ IsFinite(y) THEN x[1] * y[2] < y[1] * x[2]
    ELSE IF IsFinite(x) THEN y[1] > 0
    ELSE IF IsFinite(y) THEN x[1] < 0
    ELSE x[1] < y[1]

FGt(x, y) == FLt(y, x)
FGe(x, y) == ~IsNaN(x) /\ ~IsNaN(y) /\ ~FLt(x, y)
FLe(x, y) == FGe(y, x)

\* math.Abs
FAbs(x) == <<Abs(x[1]), x[2]>>

\* math.Max: NaN when either argument is NaN
FMax(x, y) ==
    IF IsNaN(x) \/ IsNaN(y) THEN NaN
    ELSE IF FLt(x, y) THEN y ELSE x

\* float64(n) of an integer n
FInt(n) == <<n, 1>>

InUnit(x) == FGe(x, Zero) /\ FLe(x, One)

(***************************************************************************)
(* strings                                                                 *)
(***************************************************************************)
Uppers == <<"A","B","C","D","E","F","G","H","I","J","K","L","M",
            "N","O","P","Q","R","S","T","U","V","W","X","Y","Z">>
Lowers == <<"a","b","c","d","e","f","g","h","i","j","k","l","m",
            "n","o","p","q","r","s","t","u","v","w","x","y","z">>

\* r >= 'A' && r <= 'Z'
IsUpper(r) == \E k \in 1..Len(Uppers) : Uppers[k] = r

LowerRune(r) ==
    IF IsUpper(r) THEN Lowers[CHOOSE k \in 1..Len(Uppers) : Uppers[k] = r] ELSE r

\* strings.ToLower
RECURSIVE ToLower(_)
ToLower(s) == IF s = <<>> THEN <<>> ELSE <<LowerRune(s[1])>> \o ToLower(Tail(s))

\* unicode.IsSpace on the runes of the model's alphabet
IsSpace(r) == r \in {" ", "\t", "\n"}

\* strings.TrimSpace
RECURSIVE TrimSpace(_)
TrimSpace(s) ==
    IF s = <<>> THEN s
    ELSE IF IsSpace(s[1]) THEN TrimSpace(Tail(s))
    ELSE IF IsSpace(s[Len(s)]) THEN TrimSpace(SubSeq(s, 1, Len(s) - 1))
    ELSE s

\* strings.Contains(s, sub)
Contains(s, sub) ==
    \E k \in 1..(Len(s) - Len(sub) + 1) : SubSeq(s, k, k + Len(sub) - 1) = sub

\* the UTF-8 length of a rune: len(v) counts bytes
RuneLen(r) == IF r \in {"é", "ü"} THEN 2 ELSE 1

RECURSIVE ByteLen(_)
ByteLen(s) == IF s = <<>> THEN 0 ELSE RuneLen(s[1]) + ByteLen(Tail(s))

Range(s) == {s[k] : k \in 1..Len(s)}

\* every sequence that lists the elements of S once: the orders a range over a
\* map holding S can visit them in
RECURSIVE Orders(_)
Orders(S) ==
    IF S = {} THEN {<<>>}
    ELSE UNION {{<<x>> \o q : q \in Orders(S \ {x})} : x \in S}

\* the sequences over S of length at most n
RECURSIVE SeqsUpTo(_, _)
SeqsUpTo(S, n) ==
    IF n = 0 THEN {<<>>}
    ELSE SeqsUpTo(S, n - 1) \cup {Append(q, x) : q \in SeqsUpTo(S, n - 1), x \in S}

(***************************************************************************)
(* lev.DistanceForStrings with lev.DefaultOptions                          *)
(***************************************************************************)
InsCost == 1
DelCost == 1
SubCost == 2

Min(a, b) == IF a < b THEN a ELSE b

\* one row of the edit matrix: cur holds the j cells filled so far, prev the row
\* above (never empty: it has a cell for every prefix of target)
RECURSIVE LevRow(_, _, _, _, _)
LevRow(prev, cur, r, target, j) ==
    IF j > Len(target) \/ Len(cur) < j THEN cur
    ELSE LET sub == prev[j] + (IF r = target[j] THEN 0 ELSE SubCost)
             del == prev[j + 1] + DelCost
             ins == cur[j] + InsCost
         IN  LevRow(prev, Append(cur, Min(Min(del, sub), ins)), r, target, j + 1)

RECURSIVE LevRows(_, _, _, _)
LevRows(prev, source, target, i) ==
    IF i > Len(source) \/ Len(prev) = 0 THEN prev
    ELSE LevRows(LevRow(prev, <<prev[1] + DelCost>>, source[i], target, 1),
                 source, target, i + 1)

\* the first row of the edit matrix: j insertions reach the first j runes
RECURSIVE LevFirstRow(_)
LevFirstRow(n) == IF n = 0 THEN <<0>> ELSE Append(LevFirstRow(n - 1), n * InsCost)

DistanceForStrings(source, target) ==
    LevRows(LevFirstRow(Len(target)), source, target, 1)[Len(target) + 1]

(***************************************************************************)
(* similarity.go                                                           *)
(***************************************************************************)
IsSeparator(r) == r = "_" \/ r = "-" \/ r = " "

\* strings.FieldsFunc(s, IsSeparator): the maximal runs of non-separator runes
RECURSIVE FieldsFunc(_, _, _)
FieldsFunc(s, cur, fields) ==
    IF s = <<>> THEN (IF cur = <<>> THEN fields ELSE Append(fields, cur))
    ELSE IF IsSeparator(s[1])
         THEN FieldsFunc(Tail(s), <<>>, IF cur = <<>> THEN fields ELSE Append(fields, cur))
         ELSE FieldsFunc(Tail(s), Append(cur, s[1]), fields)

\* the inner loop of tokenize over one part p: a new token starts at an upper-case
\* rune that is not the first
RECURSIVE SplitCamel(_, _, _, _)
SplitCamel(p, i, cur, tokens) ==
    IF i > Len(p) THEN (IF Len(cur) > 0 THEN Append(tokens, ToLower(cur)) ELSE tokens)
    ELSE IF i > 1 /\ IsUpper(p[i])
         THEN SplitCamel(p, i + 1, <<p[i]>>, Append(tokens, ToLower(cur)))
         ELSE SplitCamel(p, i + 1, Append(cur, p[i]), tokens)

RECURSIVE TokenizeParts(_, _)
TokenizeParts(parts, tokens) ==
    IF parts = <<>> THEN tokens
    ELSE TokenizeParts(Tail(parts), SplitCamel(parts[1], 1, <<>>, tokens))

\* tokenize lower-cases the name before it looks for upper-case runes
tokenize(name) == TokenizeParts(FieldsFunc(ToLower(name), <<>>, <<>>), <<>>)

jaccard(tokens1, tokens2) ==
    LET set1 == Range(tokens1)
        set2 == Range(tokens2)
        intersect == Cardinality(set1 \cap set2)
        union == set1 \cup set2
    IN  IF Cardinality(union) = 0 THEN Zero
        ELSE FDiv(FInt(intersect), FInt(Cardinality(union)))

\* 1.0 - float64(dist)/maxLen on the lower-cased names, lengths in runes
NameEditScore(n1, n2) ==
    LET dist == DistanceForStrings(n1, n2)
        maxLen == IF Len(n2) > Len(n1) THEN FInt(Len(n2)) ELSE FInt(Len(n1))
    IN  FSub(One, FDiv(FInt(dist), maxLen))

\* columnNameScore without the token score: the edit score alone is returned
columnNameScoreEditOnly(name1, name2) ==
    LET n1 == ToLower(name1)
        n2 == ToLower(name2)
    IN  IF n1 = n2 THEN One
        ELSE IF Contains(n1, n2) \/ Contains(n2, n1) THEN F(8, 10)
        ELSE NameEditScore(n1, n2)

\* columnNameScore without the edit score: the token score alone is returned
columnNameScoreTokenOnly(name1, name2) ==
    LET n1 == ToLower(name1)
        n2 == ToLower(name2)
    IN  IF n1 = n2 THEN One
        ELSE IF Contains(n1, n2) \/ Contains(n2, n1) THEN F(8, 10)
        ELSE jaccard(tokenize(name1), tokenize(name2))

columnNameScore(name1, name2) ==
    LET n1 == ToLower(name1)
        n2 == ToLower(name2)
        tokenScore == jaccard(tokenize(name1), tokenize(name2))
        editScore == NameEditScore(n1, n2)
    IN  IF n1 = n2 THEN One
        ELSE IF Contains(n1, n2) \/ Contains(n2, n1) THEN F(8, 10)
        ELSE IF FGt(editScore, tokenScore) THEN editScore ELSE tokenScore

(***************************************************************************)
(* profiler.go: the closed type enumeration and the profile builder        *)
(***************************************************************************)
Numeric == {"BIGINT", "HUGEINT", "INTEGER", "SMALLINT", "TINYINT",
            "UBIGINT", "UHUGEINT", "UINTEGER", "USMALLINT", "UTINYINT",
            "DECIMAL", "DOUBLE", "FLOAT"}
Text == {"VARCHAR", "UUID", "JSON"}
Temporal == {"DATE", "TIMESTAMP", "TIMESTAMP WITH TIME ZONE", "TIME", "INTERVAL"}

\* the constants of type Dtype
Dtypes == Numeric \cup Text \cup Temporal \cup {"BIT", "BLOB", "BOOLEAN"}

\* the zero value of Dtype: the type of a profile whose type string was rejected
NoType == ""

IsValidDuckDBType(t) == t \in Dtypes

\* ColumnProfile{}
EmptyProfile ==
    [Name |-> <<>>, DType |-> NoType, NullPct |-> Zero, UniquePct |-> Zero,
     Samples |-> Nil, Stats |-> Nil]

populateTableInfo(cp, name, dtype) ==
    IF IsValidDuckDBType(dtype)
    THEN [cp EXCEPT !.Name = name, !.DType = dtype]
    ELSE [cp EXCEPT !.Name = name]

populatePcts(cp, nullPct, uniquePct) ==
    [cp EXCEPT !.NullPct = nullPct, !.UniquePct = uniquePct]

\* the samples arrive as the strings fmt.Sprintf("%v", s) gives
populateSamples(cp, samples) == [cp EXCEPT !.Samples = samples]

\* tableInfo, pcts and samples applied to one column's facts, in profile's order
BuildProfile(col) ==
    populateSamples(
        populatePcts(populateTableInfo(EmptyProfile, col.name, col.dtype),
                     col.nullPct, col.uniquePct),
        col.samples)

(***************************************************************************)
(* the match file: identities, the five scores and match                   *)
(***************************************************************************)
\* json.Marshal lists every field in declaration order and sha256 keeps distinct
\* serialisations apart: the identity is the tuple of the fields
NewColumnProfileID(cp) ==
    <<cp.Name, cp.DType, cp.NullPct, cp.UniquePct, cp.Samples, cp.Stats>>

NewColumnProfilePair(left, right) ==
    [Left |-> NewColumnProfileID(left), Right |-> NewColumnProfileID(right)]

sameFamily(a, b) ==
    \/ a \in Numeric /\ b \in Numeric
    \/ a \in Text /\ b \in Text
    \/ a \in Temporal /\ b \in Temporal

\* castableLossy with the text type on the left only
castableLossyOneWay(a, b) ==
    \/ (a \in Text /\ b \in Numeric)
    \/ (a \in Text /\ b \in Temporal)

castableLossy(a, b) ==
    \/ (a \in Text /\ b \in Numeric) \/ (a \in Numeric /\ b \in Text)
    \/ (a \in Text /\ b \in Temporal) \/ (a \in Temporal /\ b \in Text)

baseTypeScore(a, b) ==
    IF a = b THEN One
    ELSE IF sameFamily(a, b) THEN F(8, 10)
    ELSE IF castableLossy(a, b) THEN F(3, 10)
    ELSE Zero

Hundred == 100

nullSimilarityScore(left, right) ==
    FSub(One, FDiv(FAbs(FSub(left, right)), FInt(Hundred)))

\* 1e-6
Epsilon == F(1, 1000000)

\* uniqueScore without the floor on its denominator
uniqueScoreNoFloor(left, right) ==
    LET denom == FMax(left, right)
    IN  FSub(One, FDiv(FAbs(FSub(left, right)), denom))

uniqueScore(left, right) ==
    LET denom == FMax(FMax(left, right), Epsilon)
    IN  FSub(One, FDiv(FAbs(FSub(left, right)), denom))

\* the set a sample list leaves in the map: lower-cased, trimmed
NormalizedSet(values) ==
    IF values = Nil THEN {} ELSE {ToLower(TrimSpace(values[k])) : k \in 1..Len(values)}

\* 1.0 - float64(dist)/maxLen, maxLen in bytes; NaN for two empty strings
ValueEditScore(v1, v2) ==
    LET dist == DistanceForStrings(v1, v2)
        maxLen == IF ByteLen(v2) > ByteLen(v1) THEN FInt(ByteLen(v2)) ELSE FInt(ByteLen(v1))
    IN  FSub(One, FDiv(FInt(dist), maxLen))

\* the values of set2 the inner loop reaches for v1 when it visits set2 in the
\* order q: all of them up to and including the first whose score passes
RECURSIVE Visited(_, _, _, _)
Visited(v1, q, threshold, k) ==
    IF k > Len(q) THEN {}
    ELSE IF FGe(ValueEditScore(v1, q[k]), threshold) THEN {q[k]}
    ELSE {q[k]} \cup Visited(v1, q, threshold, k + 1)

\* whether the inner loop counts v1: some value of set2 passes the threshold
Matched(v1, set2, threshold) ==
    \E v2 \in set2 : FGe(ValueEditScore(v1, v2), threshold)

\* overlapScore, with order[v1] the order in which the inner range visits set2
\* while the outer loop is at v1.  The outer order does not matter: the loop body
\* only adds to a set and to a counter.
overlapScore(left, right, threshold, order) ==
    LET set1 == NormalizedSet(left)
        set2 == NormalizedSet(right)
        intersect == Cardinality({v1 \in set1 : Matched(v1, set2, threshold)})
        union == set1 \cup UNION {Visited(v1, order[v1], threshold, 1) : v1 \in set1}
    IN  IF Cardinality(union) = 0 THEN Zero
        ELSE FDiv(FInt(intersect), FInt(Cardinality(union)))

\* the orders the inner ranges of one overlapScore call can take
OverlapOrders(left, right) == [NormalizedSet(left) -> Orders(NormalizedSet(right))]

OverlapThreshold == F(8, 10)

\* the weighted sum of match
Composite(nameS, typeS, uniqueS, overlapS, nullS) ==
    FAdd(FAdd(FAdd(FAdd(FMul(F(3, 10), nameS), FMul(F(25, 100), typeS)),
                   FMul(F(2, 10), uniqueS)),
              FMul(F(15, 100), overlapS)),
         FMul(F(1, 10), nullS))

match(left, right, order) ==
    LET typeScore == baseTypeScore(left.DType, right.DType)
        nullScore == nullSimilarityScore(left.NullPct, right.NullPct)
        uniqScore == uniqueScore(left.UniquePct, right.UniquePct)
        overlap == overlapScore(left.Samples, right.Samples, OverlapThreshold, order)
        nameScore == columnNameScore(left.Name, right.Name)
    IN  [Score |-> Composite(nameScore, typeScore, uniqScore, overlap, nullScore),
         Left |-> left, Right |-> right]

(***************************************************************************)
(* matchProfile                                                            *)
(***************************************************************************)
\* the comparison turned round: an ascending sort
lessAscending(x, y) == FLt(x.Score, y.Score)

\* results[i].Score > results[j].Score
less(x, y) == FGt(x.Score, y.Score)

\* the inner loop of an insertion sort: the element at j moves down while it is
\* less than the one before it
RECURSIVE SinkDown(_, _)
SinkDown(q, j) ==
    IF j > 1 /\ less(q[j], q[j - 1])
    THEN SinkDown([q EXCEPT ![j] = q[j - 1], ![j - 1] = q[j]], j - 1)
    ELSE q

RECURSIVE InsertionSort(_, _)
InsertionSort(q, i) == IF i > Len(q) THEN q ELSE InsertionSort(SinkDown(q, i), i + 1)

\* sort.Slice(results, less): slices this short are sorted by insertion
SortSlice(q) == InsertionSort(q, 2)

\* the loop body without its second lookup: only the pair itself is looked up
SeenNoMirror(m, left, right) == NewColumnProfilePair(left, right) \in DOMAIN m

\* the two lookups of the loop body: the pair, or its mirror, is already a key
Seen(m, left, right) ==
    \/ NewColumnProfilePair(left, right) \in DOMAIN m
    \/ NewColumnProfilePair(right, left) \in DOMAIN m

\* the facts the engine reports for the columns of the model's files
Id == <<"i", "d">>
No == <<"n", "o">>
Columns ==
    {[name |-> Id, dtype |-> "INTEGER", nullPct |-> FInt(0), uniquePct |-> FInt(100),
      samples |-> << <<"a">> >>],
     [name |-> No, dtype |-> "VARCHAR", nullPct |-> FInt(50), uniquePct |-> FInt(50),
      samples |-> << <<"a">>, <<"b">> >>],
     [name |-> Id, dtype |-> "DECIMAL(18,3)", nullPct |-> FInt(0), uniquePct |-> FInt(0),
      samples |-> <<>>]}

Profiles == {BuildProfile(col) : col \in Columns}

\* the most columns a side has
MaxCols == 2

\* no profilePath call is running and none has run
IdleProfile ==
    /\ files = Nil /\ side = Nil /\ conns = <<>> /\ db = Nil /\ cps = Nil
    /\ err = Nil /\ faults = {}

Init ==
    /\ pc = "loop"
    /\ leftCps \in SeqsUpTo(Profiles, MaxCols)
    /\ rightCps \in SeqsUpTo(Profiles, MaxCols)
    /\ li = 1
    /\ ri = 1
    /\ scores = <<>>
    /\ results = <<>>
    /\ fn = Nil /\ arg = Nil /\ ret = Nil
    /\ IdleProfile

LoopDone == li > Len(leftCps) \/ Len(rightCps) = 0

\* one pass of the inner loop body, for leftCps[li] and rightCps[ri]
LoopStep ==
    /\ pc = "loop"
    /\ ~LoopDone
    /\ LET left == leftCps[li]
           right == rightCps[ri]
           cpp == NewColumnProfilePair(left, right)
       IN  IF Seen(scores, left, right)
           THEN UNCHANGED scores
           ELSE \E order \in OverlapOrders(left.Samples, right.Samples) :
                    scores' = (cpp :> match(left, right, order)) @@ scores
    /\ IF ri < Len(rightCps)
       THEN ri' = ri + 1 /\ li' = li
       ELSE ri' = 1 /\ li' = li + 1
    /\ UNCHANGED <<pc, leftCps, rightCps, results, fn, arg, ret, profVars>>

\* the range over the map, in an order the runtime picks, then the sort
CollectAndSort ==
    /\ pc = "loop"
    /\ LoopDone
    /\ \E q \in Orders(DOMAIN scores) :
           results' = SortSlice([k \in 1..Len(q) |->
               [Left |-> scores[q[k]].Left, Right |-> scores[q[k]].Right,
                Score |-> scores[q[k]].Score]])
    /\ pc' = "done"
    /\ UNCHANGED <<leftCps, rightCps, li, ri, scores, fn, arg, ret, profVars>>

Next == LoopStep \/ CollectAndSort

Spec == Init /\ [][Next]_vars

(***************************************************************************)
(* Claims about matchProfile, checked under Spec                           *)
(***************************************************************************)
\* the unordered pair of identities of two profiles
Unordered(left, right) == {NewColumnProfileID(left), NewColumnProfileID(right)}

\* the unordered pairs of the left x right cross product
CrossPairs ==
    {Unordered(leftCps[i], rightCps[j]) : i \in 1..Len(leftCps), j \in 1..Len(rightCps)}

\* C1: matchProfile returns exactly one result per unordered pair of identities
\* of the cross product: no pair twice, none mirrored, none missing.
C1_OnePerUnorderedPair ==
    pc = "done" =>
        /\ \A p, q \in 1..Len(results) :
               p # q => Unordered(results[p].Left, results[p].Right)
                            # Unordered(results[q].Left, results[q].Right)
        /\ {Unordered(results[k].Left, results[k].Right) : k \in 1..Len(results)}
               = CrossPairs

\* a finished call whose cross product held a pair and its mirror
C1_Witness ==
    /\ pc = "done"
    /\ Len(results) >= 2
    /\ \E i, k \in 1..Len(leftCps), j, l \in 1..Len(rightCps) :
           /\ leftCps[i] # rightCps[j]
           /\ leftCps[k] = rightCps[j]
           /\ rightCps[l] = leftCps[i]

\* C2: the returned list is sorted descending by score: an earlier result never
\* has a lower score than a later one.
C2_SortedDescending ==
    pc = "done" =>
        \A p, q \in 1..Len(results) :
            p < q => FGe(results[p].Score, results[q].Score)

\* a finished call that returned results of different scores
C2_Witness ==
    /\ pc = "done"
    /\ Len(results) >= 3
    /\ FGt(results[1].Score, results[Len(results)].Score)

\* the place of a result's pair in the cross-product iteration: left index
\* first, then right index
InsertionIndex(r) ==
    LET at == {<<i, j>> \in (1..Len(leftCps)) \X (1..Len(rightCps)) :
                   NewColumnProfilePair(leftCps[i], rightCps[j])
                       = NewColumnProfilePair(r.Left, r.Right)}
        first == CHOOSE x \in at :
                     \A y \in at : x[1] < y[1] \/ (x[1] = y[1] /\ x[2] <= y[2])
    IN  (first[1] - 1) * Len(rightCps) + first[2]

\* C3: the order of the results is deterministic: results of equal score appear
\* in the insertion order of the cross-product iteration.
C3_TiesInInsertionOrder ==
    pc = "done" =>
        \A p, q \in 1..Len(results) :
            (p < q /\ results[p].Score = results[q].Score)
                => InsertionIndex(results[p]) < InsertionIndex(results[q])

(***************************************************************************)
(* match applied to two profiles                                           *)
(***************************************************************************)
\* the states every specification of a single function leaves alone
IdleLoop ==
    /\ pc = "idle" /\ leftCps = <<>> /\ rightCps = <<>> /\ li = 1 /\ ri = 1
    /\ scores = <<>> /\ results = <<>>
    /\ IdleProfile

loopVars == <<pc, leftCps, rightCps, li, ri, scores, results, profVars>>

AB == <<"a", "b">>
CD == <<"c", "d">>
A_B == <<"a", "_", "b">>

\* column facts over a wider range of names, types, percentages and samples
MatchColumns ==
    {[name |-> n, dtype |-> t, nullPct |-> FInt(p[1]), uniquePct |-> FInt(p[2]),
      samples |-> sm] :
        n \in {AB, CD, A_B},
        t \in {"INTEGER", "DOUBLE", "VARCHAR", "BOOLEAN", "FOO"},
        p \in {<<0, 100>>, <<5, 98>>, <<Hundred, 0>>},
        sm \in {<<>>, << <<"a">> >>, << <<"a">>, <<"b">> >>}}

InitMatch ==
    /\ IdleLoop
    /\ fn = "input"
    /\ arg \in {<<BuildProfile(c1), BuildProfile(c2)>> : c1, c2 \in MatchColumns}
    /\ ret = Nil

Match ==
    /\ fn = "input"
    /\ \E order \in OverlapOrders(arg[1].Samples, arg[2].Samples) :
           ret' = match(arg[1], arg[2], order)
    /\ fn' = "match"
    /\ UNCHANGED <<arg, loopVars>>

NextMatch == Match

SpecMatch == InitMatch /\ [][NextMatch]_vars

\* C4: for profiles with percentages in 0..100 the composite score of match is
\* 0.30 name + 0.25 type + 0.20 unique + 0.15 overlap + 0.10 null, each of the
\* five components lies in [0,1], and so does the composite.
C4_CompositeInUnit ==
    fn = "match" =>
        LET l == ret.Left
            r == ret.Right
            nameS == columnNameScore(l.Name, r.Name)
            typeS == baseTypeScore(l.DType, r.DType)
            uniqueS == uniqueScore(l.UniquePct, r.UniquePct)
            nullS == nullSimilarityScore(l.NullPct, r.NullPct)
        IN  /\ InUnit(nameS) /\ InUnit(typeS) /\ InUnit(uniqueS) /\ InUnit(nullS)
            /\ InUnit(ret.Score)
            /\ \A order \in OverlapOrders(l.Samples, r.Samples) :
                   InUnit(overlapScore(l.Samples, r.Samples, OverlapThreshold, order))
            /\ \E order \in OverlapOrders(l.Samples, r.Samples) :
                   LET overlapS == overlapScore(l.Samples, r.Samples, OverlapThreshold, order)
                   IN  FMul(FInt(100), ret.Score)
                          = FAdd(FAdd(FAdd(FAdd(FMul(FInt(30), nameS),
                                                FMul(FInt(25), typeS)),
                                           FMul(FInt(20), uniqueS)),
                                      FMul(FInt(15), overlapS)),
                                 FMul(FInt(10), nullS))

\* match has scored two profiles with unlike names, types, percentages and samples
C4_Witness ==
    /\ fn = "match"
    /\ ret.Left.Name = AB /\ ret.Right.Name = CD
    /\ ret.Left.DType = "INTEGER" /\ ret.Right.DType = "VARCHAR"
    /\ ret.Left.NullPct # ret.Right.NullPct
    /\ ret.Left.Samples # ret.Right.Samples /\ ret.Right.Samples # <<>>
    /\ FGt(ret.Score, Zero) /\ FLt(ret.Score, One)

(***************************************************************************)
(* populateTableInfo and baseTypeScore applied to two type strings         *)
(***************************************************************************)
\* the type labels the engine may report: the enumeration and labels outside it
TypeStrings == Dtypes \cup {"DECIMAL(18,3)", "VARCHAR[]", "integer"}

InitType ==
    /\ IdleLoop
    /\ fn = "input"
    /\ arg \in TypeStrings \X TypeStrings
    /\ ret = Nil

PopulateTableInfo ==
    /\ fn = "input"
    /\ fn' = "populateTableInfo"
    /\ ret' = <<populateTableInfo(EmptyProfile, Id, arg[1]),
                populateTableInfo(EmptyProfile, No, arg[2])>>
    /\ UNCHANGED <<arg, loopVars>>

\* the first line of match, on the two profiles built
BaseTypeScore ==
    /\ fn = "populateTableInfo"
    /\ fn' = "baseTypeScore"
    /\ arg' = <<ret[1].DType, ret[2].DType>>
    /\ ret' = baseTypeScore(ret[1].DType, ret[2].DType)
    /\ UNCHANGED loopVars

NextType == PopulateTableInfo \/ BaseTypeScore

SpecType == InitType /\ [][NextType]_vars

\* the family of a type by the rules of the classifier
Family(t) ==
    IF t \in Numeric THEN "numeric"
    ELSE IF t \in Text THEN "text"
    ELSE IF t \in Temporal THEN "temporal"
    ELSE "none"

\* C5: baseTypeScore is symmetric on the enumeration and follows the ordered
\* rules: identical 1.0, same family 0.8, text with numeric or temporal 0.3 in
\* either direction, every other pair 0.0.
C5_TypeScoreRules ==
    (fn = "baseTypeScore" /\ arg[1] \in Dtypes /\ arg[2] \in Dtypes) =>
        LET a == arg[1]
            b == arg[2]
        IN  /\ ret = baseTypeScore(b, a)
            /\ ret \in {One, F(8, 10), F(3, 10), Zero}
            /\ a = b => ret = One
            /\ (a # b /\ Family(a) = Family(b) /\ Family(a) # "none") => ret = F(8, 10)
            /\ ({Family(a), Family(b)} \in {{"text", "numeric"}, {"text", "temporal"}})
                   => ret = F(3, 10)
            /\ (a # b /\ (Family(a) # Family(b) \/ Family(a) = "none")
                      /\ "text" \notin {Family(a), Family(b)}) => ret = Zero
            /\ (a # b /\ Family(a) # Family(b)
                      /\ "none" \in {Family(a), Family(b)}) => ret = Zero

\* a numeric type was scored against a text type, numeric first
C5_Witness ==
    /\ fn = "baseTypeScore"
    /\ arg[1] \in Numeric /\ arg[2] \in Text
    /\ ret = F(3, 10)

\* C6: a type string outside the enumeration leaves the profile's type unset,
\* and a pair with at least one unset type has type score 0.0, also when both
\* are unset.
C6_UnknownTypeScoresZero ==
    /\ fn = "populateTableInfo" =>
           \A k \in 1..2 : arg[k] \notin Dtypes => ret[k].DType = NoType
    /\ (fn = "baseTypeScore" /\ (arg[1] = NoType \/ arg[2] = NoType)) => ret = Zero

(***************************************************************************)
(* nullSimilarityScore and uniqueScore applied to two percentages          *)
(***************************************************************************)
\* a percentage between 0 and the floor of uniqueScore
Tiny == F(1, 10000000)

Pcts == {FInt(k) : k \in 0..Hundred} \cup {Tiny}

InitScalar ==
    /\ IdleLoop
    /\ fn = "input"
    /\ arg \in Pcts \X Pcts
    /\ ret = Nil

NullSimilarityScore ==
    /\ fn = "input"
    /\ fn' = "nullSimilarityScore"
    /\ ret' = nullSimilarityScore(arg[1], arg[2])
    /\ UNCHANGED <<arg, loopVars>>

UniqueScore ==
    /\ fn = "input"
    /\ fn' = "uniqueScore"
    /\ ret' = uniqueScore(arg[1], arg[2])
    /\ UNCHANGED <<arg, loopVars>>

NextScalar == NullSimilarityScore \/ UniqueScore

SpecScalar == InitScalar /\ [][NextScalar]_vars

\* |l - r| / d for percentages l, r and a positive d
Gap(l, r, d) == FDiv(IF FLt(l, r) THEN FSub(r, l) ELSE FSub(l, r), d)

\* C10: for percentages in 0..100, nullSimilarityScore is 1 - |l-r|/100 and
\* uniqueScore is 1 - |l-r|/max(l, r, epsilon); both lie in [0,1] and are 1.0
\* when l = r, also when l = r = 0.
C10_ScalarScores ==
    LET l == arg[1]
        r == arg[2]
        big == IF FLt(l, r) THEN r ELSE l
    IN  /\ fn = "nullSimilarityScore" =>
               /\ FAdd(ret, Gap(l, r, FInt(100))) = One
               /\ InUnit(ret)
               /\ l = r => ret = One
        /\ fn = "uniqueScore" =>
               /\ FAdd(ret, Gap(l, r, IF FLt(big, Epsilon) THEN Epsilon ELSE big)) = One
               /\ InUnit(ret)
               /\ l = r => ret = One

\* uniqueScore was applied to two zero percentages
C10_Witness == fn = "uniqueScore" /\ arg = <<Zero, Zero>> /\ ret = One

(***************************************************************************)
(* tokenize and columnNameScore applied to two names                       *)
(***************************************************************************)
first_name == <<"f", "i", "r", "s", "t", "_", "n", "a", "m", "e">>
firstName == <<"f", "i", "r", "s", "t", "N", "a", "m", "e">>

NameRunes == {"a", "B", "_", "-"}

\* the longest generated name
MaxNameLen == 3

Names == SeqsUpTo(NameRunes, MaxNameLen) \cup {first_name, firstName}

InitName ==
    /\ IdleLoop
    /\ fn = "input"
    /\ arg \in Names \X Names
    /\ ret = Nil

Tokenize ==
    /\ fn = "input"
    /\ fn' = "tokenize"
    /\ ret' = <<tokenize(arg[1]), tokenize(arg[2])>>
    /\ UNCHANGED <<arg, loopVars>>

ColumnNameScore ==
    /\ fn = "input"
    /\ fn' = "columnNameScore"
    /\ ret' = columnNameScore(arg[1], arg[2])
    /\ UNCHANGED <<arg, loopVars>>

NextName == Tokenize \/ ColumnNameScore

SpecName == InitName /\ [][NextName]_vars

\* the words of a name: split at '_', '-' and space and before every upper-case
\* rune that is not the first of its part, each word lower-cased
RECURSIVE Words(_, _, _)
Words(s, cur, words) ==
    IF s = <<>> THEN (IF cur = <<>> THEN words ELSE Append(words, cur))
    ELSE IF IsSeparator(s[1])
         THEN Words(Tail(s), <<>>, IF cur = <<>> THEN words ELSE Append(words, cur))
    ELSE IF IsUpper(s[1]) /\ cur # <<>>
         THEN Words(Tail(s), <<LowerRune(s[1])>>, Append(words, cur))
    ELSE Words(Tail(s), Append(cur, LowerRune(s[1])), words)

\* C9: tokenize splits on '_', '-', space and camelCase boundaries and
\* lower-cases the tokens, so names that differ only in separator style have the
\* same token set, and columnNameScore("first_name", "firstName") is 1.0.
C9_SeparatorStyle ==
    /\ fn = "tokenize" =>
           /\ Range(ret[1]) = Range(Words(arg[1], <<>>, <<>>))
           /\ Words(arg[1], <<>>, <<>>) = Words(arg[2], <<>>, <<>>)
                  => Range(ret[1]) = Range(ret[2])
    /\ (fn = "columnNameScore" /\ arg = <<first_name, firstName>>) => ret = One

(***************************************************************************)
(* overlapScore applied to two sample lists                                *)
(***************************************************************************)
ValueRunes == {"a", "b", " "}

\* the longest generated sample value and the most samples of a list
MaxValueLen == 2
MaxSamples == 2

SampleLists == SeqsUpTo(SeqsUpTo(ValueRunes, MaxValueLen), MaxSamples)

Thresholds == {OverlapThreshold, F(5, 10)}

InitOverlap ==
    /\ IdleLoop
    /\ fn = "input"
    /\ arg \in SampleLists \X SampleLists \X Thresholds
    /\ ret = Nil

OverlapScore ==
    /\ fn = "input"
    /\ fn' = "overlapScore"
    /\ \E order \in OverlapOrders(arg[1], arg[2]) :
           ret' = overlapScore(arg[1], arg[2], arg[3], order)
    /\ UNCHANGED <<arg, loopVars>>

NextOverlap == OverlapScore

SpecOverlap == InitOverlap /\ [][NextOverlap]_vars

\* the edit similarity of two normalized values passes the threshold
Similar(v1, v2, threshold) == FGe(ValueEditScore(v1, v2), threshold)

\* C7: overlapScore is the number of left values with a right value of edit
\* similarity >= threshold, over the size of the union of both normalized sets,
\* and 0 when the union is empty, whatever order the sets are visited in.
C7_MatchedOverUnion ==
    fn = "overlapScore" =>
        LET set1 == NormalizedSet(arg[1])
            set2 == NormalizedSet(arg[2])
            matched == Cardinality({v1 \in set1 : \E v2 \in set2 : Similar(v1, v2, arg[3])})
            all == Cardinality(set1 \cup set2)
        IN  ret = IF all = 0 THEN Zero ELSE F(matched, all)

\* C8: with threshold 0.8, overlapScore is 1.0 when both lists normalize to the
\* same non-empty set, the empty string included, and 0.0 when every cross pair
\* of normalized values has edit similarity below 0.8.
C8_IdenticalAndDissimilar ==
    (fn = "overlapScore" /\ arg[3] = F(8, 10)) =>
        LET set1 == NormalizedSet(arg[1])
            set2 == NormalizedSet(arg[2])
        IN  /\ (set1 = set2 /\ set1 # {}) => ret = One
            /\ (\A v1 \in set1, v2 \in set2 : FLt(ValueEditScore(v1, v2), F(8, 10)))
                   => ret = Zero

(***************************************************************************)
(* matchProfile on the columns customer_id, cust_id and address            *)
(***************************************************************************)
customer_id == <<"c", "u", "s", "t", "o", "m", "e", "r", "_", "i", "d">>
cust_id == <<"c", "u", "s", "t", "_", "i", "d">>
address == <<"a", "d", "d", "r", "e", "s", "s">>

CustomerIdColumn ==
    [name |-> customer_id, dtype |-> "INTEGER", nullPct |-> FInt(0),
     uniquePct |-> FInt(100), samples |-> <<>>]
CustIdColumn ==
    [name |-> cust_id, dtype |-> "INTEGER", nullPct |-> FInt(0),
     uniquePct |-> FInt(98), samples |-> <<>>]
AddressColumn ==
    [name |-> address, dtype |-> "VARCHAR", nullPct |-> FInt(5),
     uniquePct |-> FInt(80), samples |-> <<>>]

ExampleProfiles ==
    {BuildProfile(col) : col \in {CustomerIdColumn, CustIdColumn, AddressColumn}}

InitEndToEnd ==
    /\ pc = "loop"
    /\ leftCps \in SeqsUpTo(ExampleProfiles, MaxCols)
    /\ rightCps \in SeqsUpTo(ExampleProfiles, MaxCols)
    /\ li = 1
    /\ ri = 1
    /\ scores = <<>>
    /\ results = <<>>
    /\ fn = Nil /\ arg = Nil /\ ret = Nil
    /\ IdleProfile

SpecEndToEnd == InitEndToEnd /\ [][Next]_vars

\* the result scored customer_id on the left against the column named n
IsCustomerIdWith(r, n) == r.Left.Name = customer_id /\ r.Right.Name = n

\* C11: matching customer_id against cust_id and address scores the
\* customer_id/cust_id pair above 0.7 and strictly above the customer_id/address
\* pair, and ranks it first.
C11_CustIdRankedFirst ==
    pc = "done" =>
        /\ \A p, q \in 1..Len(results) :
               (IsCustomerIdWith(results[p], cust_id) /\ IsCustomerIdWith(results[q], address))
                   => /\ FGt(results[p].Score, F(7, 10))
                      /\ FGt(results[p].Score, results[q].Score)
                      /\ p < q
        /\ (leftCps = <<BuildProfile(CustomerIdColumn)>>
                /\ rightCps = <<BuildProfile(CustIdColumn), BuildProfile(AddressColumn)>>)
               => /\ Len(results) = 2
                  /\ IsCustomerIdWith(results[1], cust_id)
                  /\ IsCustomerIdWith(results[2], address)
                  /\ FGt(results[1].Score, F(7, 10))
                  /\ FGt(results[1].Score, results[2].Score)

\* matchProfile has returned for customer_id against cust_id and address
C11_Witness ==
    /\ pc = "done"
    /\ leftCps = <<BuildProfile(CustomerIdColumn)>>
    /\ rightCps = <<BuildProfile(CustIdColumn), BuildProfile(AddressColumn)>>
    /\ Len(results) = 2

(***************************************************************************)
(* runMatch: profilePath for the left and the right file, then matchProfile*)
(***************************************************************************)
\* fmt.Sprintf("%v", nil): the sample string of a value Scan did not assign
NilString == <<"<", "n", "i", "l", ">">>

\* the relations the engine holds after ingesting the model's files: per column
\* its name, type label, percentages and the values of the sampled rows
TableA ==
    <<[name |-> Id, dtype |-> "INTEGER", nullPct |-> FInt(0), uniquePct |-> FInt(100),
       samples |-> << <<"a">>, <<"b">> >>],
      [name |-> No, dtype |-> "VARCHAR", nullPct |-> FInt(0), uniquePct |-> FInt(50),
       samples |-> << <<"a">>, <<"a">> >>]>>
TableB ==
    <<[name |-> Id, dtype |-> "DECIMAL(18,3)", nullPct |-> FInt(0),
       uniquePct |-> FInt(100), samples |-> << <<"b">> >>]>>

\* a file: whether its path ends in .csv, and the relation read from it
Files == [csv : BOOLEAN, table : {TableA, TableB}]

Sides == {"left", "right"}

InitRunMatch ==
    /\ pc = "filename"
    /\ side = "left"
    /\ files \in [Sides -> Files]
    /\ conns = <<>>
    /\ db = Nil
    /\ cps = Nil
    /\ err = Nil
    /\ faults = {}
    /\ leftCps = <<>> /\ rightCps = <<>> /\ li = 1 /\ ri = 1
    /\ scores = <<>> /\ results = <<>>
    /\ fn = Nil /\ arg = Nil /\ ret = Nil

matchVars == <<leftCps, rightCps, li, ri, scores, results, fn, arg, ret>>

Table == files[side].table

\* the sampled rows of the relation
RowCount == IF Len(Table) = 0 THEN 0 ELSE Len(Table[1].samples)

\* filename: a path that does not end in .csv is refused
Filename ==
    /\ pc = "filename"
    /\ IF files[side].csv
       THEN pc' = "prepareDB" /\ UNCHANGED <<cps, err>>
       ELSE pc' = "returned" /\ cps' = Nil /\ err' = "not a CSV file"
    /\ UNCHANGED <<files, side, conns, db, faults, matchVars>>

\* prepareDB: sql.Open, then CREATE TEMP TABLE ... read_csv.  When the statement
\* fails prepareDB returns nil and the error, and profilePath returns them
PrepareDB ==
    /\ pc = "prepareDB"
    /\ \/ /\ faults' = faults \cup {<<side, "open">>}
          /\ err' = "open"
          /\ cps' = Nil
          /\ pc' = "returned"
          /\ UNCHANGED <<conns, db>>
       \/ /\ conns' = Append(conns, "open")
          /\ faults' = faults \cup {<<side, "ingest">>}
          /\ err' = "ingest"
          /\ cps' = Nil
          /\ pc' = "returned"
          /\ UNCHANGED db
       \/ /\ conns' = Append(conns, "open")
          /\ db' = Len(conns) + 1
          /\ pc' = "tableInfo"
          /\ UNCHANGED <<cps, err, faults>>
    /\ UNCHANGED <<files, side, matchVars>>

\* a stage of profile fails: profile and profilePath return no profiles and the
\* error, and the deferred db.Close() runs
ReturnError(stage) ==
    /\ faults' = faults \cup {<<side, stage>>}
    /\ err' = stage
    /\ cps' = <<>>
    /\ conns' = [conns EXCEPT ![db] = "closed"]
    /\ db' = Nil
    /\ pc' = "returned"

\* tableInfo: PRAGMA table_info, one profile per row scanned.  rows.Next()
\* delivers n of the columns (all of them unless the iteration fails;
\* rows.Err() is not read)
TableInfo ==
    /\ pc = "tableInfo"
    /\ \/ ReturnError("tableInfo.query")
       \/ Len(Table) > 0 /\ ReturnError("tableInfo.scan")
       \/ \E n \in 0..Len(Table) :
              /\ cps' = [k \in 1..n |->
                            populateTableInfo(EmptyProfile, Table[k].name, Table[k].dtype)]
              /\ faults' = IF n < Len(Table)
                           THEN faults \cup {<<side, "tableInfo.next">>} ELSE faults
              /\ pc' = "pcts"
              /\ UNCHANGED <<conns, db, err>>
    /\ UNCHANGED <<files, side, matchVars>>

\* pcts: the aggregate query and the scan of its one row; with no profiles the
\* select list is empty and the query fails
pcts ==
    /\ pc = "pcts"
    /\ \/ ReturnError("pcts")
       \/ /\ Len(cps) > 0
          /\ cps' = [k \in 1..Len(cps) |->
                        populatePcts(cps[k], Table[k].nullPct, Table[k].uniquePct)]
          /\ pc' = "samples"
          /\ UNCHANGED <<conns, db, err, faults>>
    /\ UNCHANGED <<files, side, matchVars>>

\* the values rows.Scan leaves for column k of row r when it fails at column c
\* of row r: the columns before c are assigned, the others stay nil.  With
\* fewer destinations than columns every Scan fails before it assigns
Scanned(bad, r, k) ==
    IF Len(cps) < Len(Table) \/ (bad[1] = r /\ k >= bad[2])
    THEN NilString
    ELSE Table[k].samples[r]

\* cum[k] after the first n rows: one string appended per row
RECURSIVE Cum(_, _, _)
Cum(bad, k, n) ==
    IF n = 0 THEN <<>> ELSE Append(Cum(bad, k, n - 1), Scanned(bad, n, k))

\* every Scan of the sampling query succeeds
NoFault == <<0, 0>>

\* <<r, c>>: the one row and column at which a Scan of the sampling query fails
ScanFaults == (1..RowCount) \X (1..Len(Table))

\* samples: the sampling query.  rows.Next() delivers n of the sampled rows (all
\* of them unless the iteration fails; rows.Err() is not read), the error of
\* rows.Scan is dropped.  On success profile and profilePath return the profiles
\* and the deferred db.Close() runs
Samples ==
    /\ pc = "samples"
    /\ \/ ReturnError("samples.query")
       \/ \E n \in 0..RowCount :
          \E bad \in {NoFault} \cup {f \in ScanFaults : f[1] <= n} :
              /\ cps' = [k \in 1..Len(cps) |->
                            populateSamples(cps[k], Cum(bad, k, n))]
              /\ faults' = faults
                     \cup (IF n < RowCount THEN {<<side, "samples.next">>} ELSE {})
                     \cup (IF bad # NoFault THEN {<<side, "samples.scan">>} ELSE {})
              /\ err' = Nil
              /\ conns' = [conns EXCEPT ![db] = "closed"]
              /\ db' = Nil
              /\ pc' = "returned"
    /\ UNCHANGED <<files, side, matchVars>>

\* runMatch after a profilePath call: return the error, or go on to the right
\* file, or to matchProfile
RunMatchReturn ==
    /\ pc = "returned"
    /\ IF err # Nil
       THEN pc' = "failed" /\ UNCHANGED <<leftCps, rightCps, side>>
       ELSE IF side = "left"
            THEN /\ leftCps' = cps
                 /\ side' = "right"
                 /\ pc' = "filename"
                 /\ UNCHANGED rightCps
            ELSE /\ rightCps' = cps
                 /\ pc' = "loop"
                 /\ UNCHANGED <<leftCps, side>>
    /\ UNCHANGED <<files, conns, db, cps, err, faults, li, ri, scores, results, fn, arg, ret>>

NextRunMatch ==
    \/ Filename \/ PrepareDB \/ TableInfo \/ pcts \/ Samples \/ RunMatchReturn
    \/ LoopStep \/ CollectAndSort

SpecRunMatch == InitRunMatch /\ [][NextRunMatch]_vars
\* a stage of the profiling of the current side has failed
StageFailed == \E f \in faults : f[1] = side

\* C12: profiling is all-or-nothing.  When profilePath returns, a failure of
\* ingestion, of a query or of the scan of a row has produced an error and no
\* profiles, and a return without error carries the profile of every column,
\* with its name, type, percentages and all sampled values; runMatch returns
\* no scores after an error and matches only when no stage has failed.
C12_AllOrNothing ==
    /\ pc = "returned" =>
           /\ (StageFailed \/ ~files[side].csv) =>
                  (err # Nil /\ (cps = Nil \/ cps = <<>>))
           /\ err = Nil =>
                  cps = [k \in 1..Len(Table) |-> BuildProfile(Table[k])]
    /\ pc = "failed" => results = <<>>
    /\ pc \in {"loop", "done"} => faults = {}

\* C13: every connection a profiling operation has opened is closed when
\* profilePath returns, whether it returns profiles, fails to ingest the file
\* or fails in a later stage.
C13_ConnectionClosedOnReturn ==
    pc \in {"returned", "failed", "loop", "done"} =>
        \A k \in 1..Len(conns) : conns[k] = "closed"

====
